---- MODULE Spec2Model ----
(***************************************************************************)
(* A model of the Kinesis span exporter (kinesis.go): construction         *)
(* (NewExporter), the admission gate (acquire/release on the semaphore     *)
(* channel), the export calls and the task each one spawns                 *)
(* (processJaegerSpan/processOCSpan), and Flush.                           *)
(*                                                                         *)
(* The shardProducer type, the Shard type with belongsToShard, getShards   *)
(* and the metric hooks belong to the package but their file is not among  *)
(* the sources; they are modelled from the written specification and are   *)
(* marked as such where they are defined.                                  *)
(***************************************************************************)
EXTENDS Integers, Sequences, FiniteSets, TLC

\* ------------------------------------------------------------------ bounds

\* Number of export calls (ExportJaegerSpan/ExportOCSpan) a behaviour makes.
MaxCalls == 2

\* Longest list of membership answers getShardProducer is tried on.
MaxScan == 3

\* Number of Flush calls a behaviour makes.
MaxFlushes == 2

\* Largest value of MAX_KINESIS_RECEIVERS the environment sets.
MaxReceivers == 1

\* ------------------------------------------------- constants of the source

encodingJaeger == "jaeger-proto"

encodingOC == "oc-proto"

supportedEncodings == <<encodingJaeger, encodingOC>>

DefaultMaxListSize == 100000

DefaultMaxAllowedSizePerSpan == 900000

\* ------------------------------------------------------------------ inputs

\* Values the caller of NewExporter passes.
Regions == {"", "us-east-1"}

StreamNames == {"", "traces"}

Encodings == {"", encodingJaeger, encodingOC, "zipkin-thrift"}

\* A configured span limit that is smaller than the default one.
CustomMaxAllowedSizePerSpan == 300

MaxAllowedSizes == {0, CustomMaxAllowedSizePerSpan}

OptionInputs ==
    [AWSRegion : Regions, StreamName : StreamNames, Encoding : Encodings,
     MaxListSize : {0}, MaxAllowedSizePerSpan : MaxAllowedSizes]

\* Trace identifiers the callers use; 0 stands for the empty identifier.
TraceIds == 0 .. 3

\* ------------------------------------------ shards (package code, not in src)

\* The hash-key space, scaled down from 2^128 values.
HashSpace == 16

\* The partition key a task routes by: the Jaeger path renders the trace id as
\* a hex string, the OpenCensus path uses the raw bytes.
JaegerPartitionKey(traceId) == <<"hex", traceId>>

OCPartitionKey(traceId) == <<"raw", traceId>>

\* The hash of a partition key as a position of the hash-key space.
toHashKey(partitionKey) ==
    (partitionKey[2] * 7 + (IF partitionKey[1] = "hex" THEN 3 ELSE 5)) % HashSpace

Shard(id, lo, hi) == [shardId |-> id, startingHashKey |-> lo, endingHashKey |-> hi]

\* Two shards that partition the hash-key space.
FullShards ==
    << Shard("shard-1", 0, (HashSpace \div 2) - 1),
       Shard("shard-2", HashSpace \div 2, HashSpace - 1) >>

\* A shard list that leaves one hash key without an owner.
GapShards ==
    << Shard("shard-1", 0, (HashSpace \div 2) - 1),
       Shard("shard-2", (HashSpace \div 2) + 1, HashSpace - 1) >>

\* What getShards can answer: an error, or a non-empty shard list.
ShardListings == {FullShards, GapShards}

\* Shard.belongsToShard: (ok, err). Every key has a hash, and the test is
\* whether the hash lies in the shard's closed range; it reports no error.
belongsToShard(shard, partitionKey) ==
    [ok |-> /\ shard.startingHashKey <= toHashKey(partitionKey)
            /\ toHashKey(partitionKey) <= shard.endingHashKey,
     err |-> FALSE]

\* The partition key of a writer: its shard's range start as a string.
HashKeyString(n) == <<"dec", n>>

\* ------------------------------------------------------------- construction

\* Options.isValidEncoding, lines 73-80.
isValidEncoding(o) ==
    \E i \in 1 .. Len(supportedEncodings) : supportedEncodings[i] = o.Encoding

\* NewExporter, the defaults of lines 86-103 and 112-114.
ApplyDefaults(o) ==
    [o EXCEPT
       !.MaxListSize = IF @ = 0 THEN DefaultMaxListSize ELSE @,
       !.MaxAllowedSizePerSpan = IF @ = 0 THEN DefaultMaxAllowedSizePerSpan ELSE @]

DefaultEncoding(o) ==
    [o EXCEPT !.Encoding = IF @ = "" THEN encodingJaeger ELSE @]

\* Variant of Validate that refuses nothing; C9 must fail against it.
ValidateAcceptsAll(o) == ""

\* The error NewExporter returns for the options, or "" when they pass,
\* lines 104-118.
Validate(o) ==
    IF o.AWSRegion = "" THEN "missing AWS Region for Kinesis exporter"
    ELSE IF o.StreamName = "" THEN "missing Stream Name for Kinesis exporter"
    ELSE IF ~isValidEncoding(DefaultEncoding(o)) THEN "invalid option for Encoding"
    ELSE ""

NoOptions == [AWSRegion |-> "", StreamName |-> "", Encoding |-> "",
              MaxListSize |-> 0, MaxAllowedSizePerSpan |-> 0]

\* e.semaphore: a nil channel, or a channel of capacity cap holding len tokens.
NilSemaphore == [nil |-> TRUE, cap |-> 0, len |-> 0, closed |-> FALSE]

MakeSemaphore(maxReceivers) ==
    IF maxReceivers > 0
    THEN [nil |-> FALSE, cap |-> maxReceivers, len |-> 0, closed |-> FALSE]
    ELSE NilSemaphore

\* Variant of NewShardProducer that takes the partition key from the end of
\* the shard's range; C15 must fail against it.
NewShardProducerEndKey(shard, o) ==
    [shard |-> shard,
     partitionKey |-> HashKeyString(shard.endingHashKey),
     isJaeger |-> (o.Encoding = encodingJaeger),
     maxSize |-> o.MaxListSize,
     started |-> 0,
     stopped |-> 0,
     spans |-> <<>>,
     size |-> 0,
     pr |-> <<>>]

\* The shardProducer NewExporter builds for a shard (lines 152-160), with the
\* state of the writer behind it: how often it was started and its stream
\* writer stopped, the spans it buffers, and the records handed to the stream
\* writer.
NewShardProducer(shard, o) ==
    [shard |-> shard,
     partitionKey |-> HashKeyString(shard.startingHashKey),
     isJaeger |-> (o.Encoding = encodingJaeger),
     maxSize |-> o.MaxListSize,
     started |-> 0,
     stopped |-> 0,
     spans |-> <<>>,
     size |-> 0,
     pr |-> <<>>]

\* -------------------------------------------------------- spans and encoding

\* A span as far as the exporter reads and writes it. tags are the Tags of a
\* Jaeger span or the entries of Attributes.AttributeMap of an OpenCensus span,
\* logs are the Logs or the TimeEvents; each entry carries its encoded length.
\* attrs says whether an OpenCensus span has an Attributes container at all.
\* other is the encoded length of all the other fields, and valid is whether
\* the marshaller accepts them.
Span(schema, traceId, other, tags, logs, attrs, valid) ==
    [schema |-> schema, traceId |-> traceId, other |-> other, tags |-> tags,
     logs |-> logs, attrs |-> attrs, valid |-> valid]

Tag(key, bytes) == [key |-> key, bytes |-> bytes]

RECURSIVE SumBytes(_)
SumBytes(entries) ==
    IF entries = <<>> THEN 0 ELSE Head(entries).bytes + SumBytes(Tail(entries))

RECURSIVE SumSeq(_)
SumSeq(lengths) ==
    IF lengths = <<>> THEN 0 ELSE Head(lengths) + SumSeq(Tail(lengths))

\* Length of the base-128 varint of a non-negative number.
VarintLen(n) ==
    IF n < 128 THEN 1 ELSE IF n < 16384 THEN 2 ELSE IF n < 2097152 THEN 3 ELSE 4

\* gogoproto.Marshal / proto.Marshal: an error, or the encoded length. An
\* OpenCensus span wraps its attribute entries in the Attributes message.
Marshal(span) ==
    IF ~span.valid
    THEN [err |-> TRUE, len |-> 0]
    ELSE [err |-> FALSE,
          len |-> span.other + SumSeq(span.logs)
                  + (IF span.schema = "jaeger"
                     THEN SumBytes(span.tags)
                     ELSE IF span.attrs /\ span.tags # <<>>
                          THEN 1 + VarintLen(SumBytes(span.tags)) + SumBytes(span.tags)
                          ELSE 0)]

\* A tag or attribute with the value the exporter gives it.
Marker(key, value, bytes) == [key |-> key, value |-> value, bytes |-> bytes]

\* The three tags processJaegerSpan installs on an oversized span, lines
\* 257-261, with the encoded length of each KeyValue.
JaegerDroppedTags(size) ==
    << Marker("omnition.dropped", TRUE, 24),
       Marker("omnition.dropped.reason", "unsupported size", 45),
       Marker("omnition.dropped.size", size, 28 + VarintLen(size)) >>

\* The three attributes processOCSpan installs on an oversized span, lines
\* 295-299, with the encoded length of each map entry.
OCDroppedAttributes(size) ==
    << Marker("omnition.dropped", TRUE, 24),
       Marker("omnition.dropped.reason", "unsupported size", 49),
       Marker("omnition.dropped.size", size, 28 + VarintLen(size)) >>

\* Encoded length of the fields of a span other than tags and logs.
BaseBytes == 60

UserTag == Tag("http.method", 20)

\* The spans the callers export, sized around the configured limit.
JaegerSpans(limit) ==
    { Span("jaeger", 2, BaseBytes, <<UserTag>>, <<limit - BaseBytes - 20>>, TRUE, TRUE),
      Span("jaeger", 3, BaseBytes, <<UserTag>>, <<limit - BaseBytes - 19>>, TRUE, TRUE),
      Span("jaeger", 1, limit + 1, <<>>, <<>>, TRUE, TRUE),
      Span("jaeger", 2, BaseBytes, <<UserTag>>, <<>>, TRUE, FALSE),
      Span("jaeger", 0, BaseBytes, <<>>, <<>>, TRUE, TRUE) }

OCSpans(limit) ==
    { Span("oc", 1, BaseBytes, <<UserTag>>, <<>>, TRUE, TRUE),
      Span("oc", 2, BaseBytes, <<>>, <<limit - BaseBytes>>, FALSE, TRUE),
      Span("oc", 2, BaseBytes, <<UserTag>>, <<limit + 1>>, TRUE, TRUE),
      Span("oc", 3, BaseBytes, <<>>, <<limit>>, FALSE, TRUE) }

NoSpan == Span("none", 0, 0, <<>>, <<>>, FALSE, FALSE)

\* -------------------------------------------------------------------- state

VARIABLES
    ctor,        \* where NewExporter is: "Uninitialized", "Validated",
                 \* "Discovered", "Registered", "Running" (the Exporter was
                 \* returned) or "Failed" (an error was returned)
    err,         \* the error NewExporter returned, "" if none
    options,     \* e.options, with the defaults applied
    client,      \* whether the AWS session and the Kinesis client exist
    shards,      \* what getShards returned
    producers,   \* e.producers
    semaphore,   \* e.semaphore
    views,       \* whether the metric views are registered
    hooks,       \* the counters behind the metric hooks
    calls,       \* the export calls and the task each one spawns
    flush,       \* the Flush calls
    panicked     \* whether a goroutine panicked (which ends the process)

vars == <<ctor, err, options, client, shards, producers, semaphore, views,
          hooks, calls, flush, panicked>>

Calls == 1 .. MaxCalls

NoCall ==
    [pc |-> "idle", span |-> NoSpan, orig |-> NoSpan, ret |-> "none",
     slot |-> FALSE, sp |-> 0, size |-> 0, xl |-> FALSE, outcome |-> "none"]

Init ==
    /\ ctor = "Uninitialized"
    /\ err = ""
    /\ options = NoOptions
    /\ client = FALSE
    /\ shards = <<>>
    /\ producers = <<>>
    /\ semaphore = NilSemaphore
    /\ views = FALSE
    /\ hooks = [enqueued |-> 0, dequeued |-> 0, xlDropped |-> 0]
    /\ calls = [c \in Calls |-> NoCall]
    /\ flush = [pc |-> "idle", i |-> 0, calls |-> 0, returned |-> 0]
    /\ panicked = FALSE

\* ------------------------------------------------------------- NewExporter

\* Lines 86-118: the defaults and the validation of the options.
NewExporterValidate(o) ==
    /\ ctor = "Uninitialized"
    /\ IF Validate(o) # ""
       THEN /\ ctor' = "Failed"
            /\ err' = Validate(o)
            /\ UNCHANGED options
       ELSE /\ ctor' = "Validated"
            /\ options' = DefaultEncoding(ApplyDefaults(o))
            /\ UNCHANGED err
    /\ UNCHANGED <<client, shards, producers, semaphore, views, hooks, calls,
                   flush, panicked>>

\* Lines 120-133: the session, the client and the shard listing.
NewExporterDiscover(listing) ==
    /\ ctor = "Validated"
    /\ client' = TRUE
    /\ IF listing = <<>>
       THEN /\ ctor' = "Failed"
            /\ err' = "getShards failed"
            /\ UNCHANGED shards
       ELSE /\ ctor' = "Discovered"
            /\ shards' = listing
            /\ UNCHANGED err
    /\ UNCHANGED <<options, producers, semaphore, views, hooks, calls, flush,
                   panicked>>

\* Variant of NewExporterBuild that starts every producer as it is built,
\* before the metric views are registered; C18 must fail against it.
NewExporterBuildStarted(maxReceivers, registered) ==
    /\ ctor = "Discovered"
    /\ producers' = [i \in 1 .. Len(shards) |->
                        [NewShardProducer(shards[i], options) EXCEPT !.started = 1]]
    /\ semaphore' = MakeSemaphore(maxReceivers)
    /\ IF registered
       THEN /\ ctor' = "Registered"
            /\ views' = TRUE
            /\ UNCHANGED err
       ELSE /\ ctor' = "Failed"
            /\ err' = "view.Register failed"
            /\ UNCHANGED views
    /\ UNCHANGED <<options, client, shards, hooks, calls, flush, panicked>>

\* Lines 135-179: one shardProducer per shard, the Exporter with its
\* semaphore, and the registration of the metric views.
NewExporterBuild(maxReceivers, registered) ==
    /\ ctor = "Discovered"
    /\ producers' = [i \in 1 .. Len(shards) |-> NewShardProducer(shards[i], options)]
    /\ semaphore' = MakeSemaphore(maxReceivers)
    /\ IF registered
       THEN /\ ctor' = "Registered"
            /\ views' = TRUE
            /\ UNCHANGED err
       ELSE /\ ctor' = "Failed"
            /\ err' = "view.Register failed"
            /\ UNCHANGED views
    /\ UNCHANGED <<options, client, shards, hooks, calls, flush, panicked>>

\* shardProducer.start (package code, not in src): the writer runs.
start(p) == [p EXCEPT !.started = @ + 1]

\* Lines 181-185: every producer is started and the Exporter is returned.
NewExporterStart ==
    /\ ctor = "Registered"
    /\ producers' = [i \in 1 .. Len(producers) |-> start(producers[i])]
    /\ ctor' = "Running"
    /\ UNCHANGED <<err, options, client, shards, semaphore, views, hooks, calls,
                   flush, panicked>>

\* --------------------------------------------------------- admission gate

\* Variant of acquireReady for a channel that never makes a sender wait; C1
\* must fail against it.
acquireReadyUnbounded(sem) == TRUE

\* Whether the channel send of acquire can proceed: a nil semaphore is
\* skipped, a send on a closed channel panics at once, and a send on an open
\* channel waits for room in the buffer.
acquireReady(sem) == sem.nil \/ sem.closed \/ sem.len < sem.cap

\* Exporter.acquire, lines 208-212, once the send proceeds.
acquire(sem) == IF sem.nil THEN sem ELSE [sem EXCEPT !.len = @ + 1]

\* Exporter.release, lines 214-218: a receive takes one token (a receive from
\* a closed channel takes a buffered token if there is one). No function of
\* the package calls it.
release(sem) ==
    IF sem.nil \/ sem.len = 0 THEN sem ELSE [sem EXCEPT !.len = @ - 1]

\* ------------------------------------------------------------ export calls

Running == ctor = "Running" /\ ~panicked

Limit == options.MaxAllowedSizePerSpan

\* Lines 227 and 235: the call counts the span as enqueued; it then stands
\* before acquire. Calls are numbered in the order they get here.
Begin(c, span) ==
    /\ Running
    /\ calls[c].pc = "idle"
    /\ c > 1 => calls[c - 1].pc # "idle"
    /\ hooks' = [hooks EXCEPT !.enqueued = @ + 1]
    /\ calls' = [calls EXCEPT ![c] = [@ EXCEPT !.pc = "acquire", !.span = span,
                                               !.orig = span]]
    /\ UNCHANGED <<ctor, err, options, client, shards, producers, semaphore,
                   views, flush, panicked>>

\* ExportSpan, lines 221-223, delegates to ExportJaegerSpan.
ExportSpan(c) ==
    \E span \in JaegerSpans(Limit) : Begin(c, span)

\* ExportJaegerSpan, lines 226-227.
ExportJaegerSpan(c) ==
    \E span \in JaegerSpans(Limit) : Begin(c, span)

\* ExportOCSpan, lines 234-235.
ExportOCSpan(c) ==
    \E span \in OCSpans(Limit) : Begin(c, span)

\* What the export call returns to its caller, lines 230 and 238.
ExportResult == "nil"

\* Lines 228-230 and 236-238: acquire, then the task is spawned and the call
\* returns. A send on a closed channel panics.
ExportAdmit(c) ==
    /\ Running
    /\ calls[c].pc = "acquire"
    /\ acquireReady(semaphore)
    /\ IF ~semaphore.nil /\ semaphore.closed
       THEN /\ panicked' = TRUE
            /\ calls' = [calls EXCEPT ![c] = [@ EXCEPT !.pc = "panic"]]
            /\ UNCHANGED semaphore
       ELSE /\ semaphore' = acquire(semaphore)
            /\ calls' = [calls EXCEPT ![c] = [@ EXCEPT !.pc = "process",
                                                       !.slot = ~semaphore.nil,
                                                       !.ret = ExportResult]]
            /\ UNCHANGED panicked
    /\ UNCHANGED <<ctor, err, options, client, shards, producers, views,
                   hooks, flush>>

\* ------------------------------------------------------------ export tasks

\* Variant of ScanProducers that falls back to the first producer when no
\* shard owns the key; C13 must fail against it.
RECURSIVE ScanProducersDefaulting(_, _)
ScanProducersDefaulting(answers, i) ==
    IF i > Len(answers)
    THEN [sp |-> IF Len(answers) > 0 THEN 1 ELSE 0,
          err |-> IF Len(answers) > 0 THEN "" ELSE "no shard found"]
    ELSE IF answers[i].err
         THEN [sp |-> 0, err |-> "belongsToShard failed"]
         ELSE IF answers[i].ok
              THEN [sp |-> i, err |-> ""]
              ELSE ScanProducersDefaulting(answers, i + 1)

\* The loop of Exporter.getShardProducer, lines 330-339, from producer i on.
\* answers[i] is what the membership test of producer i's shard answers for
\* the key. The result is the index of the first producer whose shard owns
\* the key, or an error when a test fails first or no shard owns the key.
RECURSIVE ScanProducers(_, _)
ScanProducers(answers, i) ==
    IF i > Len(answers)
    THEN [sp |-> 0, err |-> "no shard found"]
    ELSE IF answers[i].err
         THEN [sp |-> 0, err |-> "belongsToShard failed"]
         ELSE IF answers[i].ok
              THEN [sp |-> i, err |-> ""]
              ELSE ScanProducers(answers, i + 1)

\* The membership answers of the producers' shards for a key.
Answers(prods, partitionKey) ==
    [i \in 1 .. Len(prods) |-> belongsToShard(prods[i].shard, partitionKey)]

\* Variant of getShardProducer whose loop leaves out the first producer; C14
\* must fail against it.
getShardProducerFromSecond(prods, partitionKey) ==
    ScanProducers(Answers(prods, partitionKey), 2)

\* Exporter.getShardProducer, lines 329-340.
getShardProducer(prods, partitionKey) ==
    ScanProducers(Answers(prods, partitionKey), 1)

\* Variant of Oversized that also takes a span of exactly the limit; C10
\* must fail against it.
OversizedFromLimit(size, limit) == size >= limit

\* Whether the size guard treats an encoded length as oversized, lines 255, 293.
Oversized(size, limit) == size > limit

\* processJaegerSpan, lines 249-269: the first encoding and, for an oversized
\* span, the dropped marker and the second encoding. The result is the span
\* as the task leaves it, the size it passes on and how the task goes on.
JaegerSizeGuard(span, limit) ==
    LET first == Marshal(span)
        marked == [span EXCEPT !.tags = JaegerDroppedTags(first.len),
                               !.logs = <<>>]
        second == Marshal(marked)
    IN IF first.err
       THEN [span |-> span, size |-> 0, xl |-> FALSE, outcome |-> "encoding"]
       ELSE IF ~Oversized(first.len, limit)
            THEN [span |-> span, size |-> first.len, xl |-> FALSE, outcome |-> "put"]
            ELSE IF second.err
                 THEN [span |-> marked, size |-> first.len, xl |-> TRUE,
                       outcome |-> "encoding"]
                 ELSE [span |-> marked, size |-> second.len, xl |-> TRUE,
                       outcome |-> "put"]

\* processOCSpan, lines 287-306: as above, except that the marker is written
\* through span.Attributes, which panics when the span has none, and that the
\* time events are kept.
OCSizeGuard(span, limit) ==
    LET first == Marshal(span)
        marked == [span EXCEPT !.tags = OCDroppedAttributes(first.len)]
        second == Marshal(marked)
    IN IF first.err
       THEN [span |-> span, size |-> 0, xl |-> FALSE, outcome |-> "encoding"]
       ELSE IF ~Oversized(first.len, limit)
            THEN [span |-> span, size |-> first.len, xl |-> FALSE, outcome |-> "put"]
            ELSE IF ~span.attrs
                 THEN [span |-> span, size |-> first.len, xl |-> TRUE,
                       outcome |-> "panic"]
                 ELSE IF second.err
                      THEN [span |-> marked, size |-> first.len, xl |-> TRUE,
                            outcome |-> "encoding"]
                      ELSE [span |-> marked, size |-> second.len, xl |-> TRUE,
                            outcome |-> "put"]

\* Variant of finish that hands the task's error to the export call as its
\* result; C3 must fail against it.
finishPropagating(task, outcome) ==
    [task EXCEPT !.pc = "done", !.outcome = outcome,
                 !.ret = IF outcome = "ok" THEN @ ELSE outcome]

\* How a task ends, lines 244-247, 250-253, 264-267 and 275-277: an error is
\* printed and the task returns; nothing reaches the export call's caller.
finish(task, outcome) == [task EXCEPT !.pc = "done", !.outcome = outcome]

\* Variant of deferredDequeue that counts a span as dequeued only at the end
\* of a task that submitted it; C16 must fail against it.
dequeueOnSuccess(outcome) == outcome = "ok"

\* Whether a task that ends with the given outcome counts its span as
\* dequeued: OnSpanDequeued is deferred (lines 242, 281), so it runs however
\* the task ends, a panic included.
deferredDequeue(outcome) == TRUE

\* The hooks once a task has ended with the given outcome.
Dequeued(h, outcome) ==
    [h EXCEPT !.dequeued = IF deferredDequeue(outcome) THEN @ + 1 ELSE @]

\* The first part of a task, up to the call of putJaeger/putOC: routing,
\* encoding and the size guard. A task that ends here counts the span as
\* dequeued (the deferred OnSpanDequeued of lines 242 and 281).
Process(c, partitionKey, guard) ==
    LET route == getShardProducer(producers, partitionKey)
    IN /\ Running
       /\ calls[c].pc = "process"
       /\ IF route.err # ""
          THEN /\ calls' = [calls EXCEPT ![c] = finish(@, "routing")]
               /\ hooks' = Dequeued(hooks, "routing")
               /\ UNCHANGED panicked
          ELSE /\ hooks' =
                    LET h == [hooks EXCEPT !.xlDropped = IF guard.xl THEN @ + 1 ELSE @]
                    IN IF guard.outcome = "put" THEN h ELSE Dequeued(h, guard.outcome)
               /\ panicked' = (guard.outcome = "panic")
               /\ calls' = [calls EXCEPT ![c] =
                     LET t == [@ EXCEPT !.sp = route.sp, !.span = guard.span,
                                        !.size = guard.size, !.xl = guard.xl]
                     IN IF guard.outcome = "put"
                        THEN [t EXCEPT !.pc = "put"]
                        ELSE finish(t, guard.outcome)]
       /\ UNCHANGED <<ctor, err, options, client, shards, producers, semaphore,
                      views, flush>>

\* processJaegerSpan, lines 241-269.
processJaegerSpan(c) ==
    /\ calls[c].span.schema = "jaeger"
    /\ Process(c, JaegerPartitionKey(calls[c].span.traceId),
               JaegerSizeGuard(calls[c].span, Limit))

\* processOCSpan, lines 280-306.
processOCSpan(c) ==
    /\ calls[c].span.schema = "oc"
    /\ Process(c, OCPartitionKey(calls[c].span.traceId),
               OCSizeGuard(calls[c].span, Limit))

\* --------------------------------- shard writers (package code, not in src)

\* The writer hands its buffered spans to its stream writer; a stopped stream
\* writer takes nothing and the spans stay where they are.
flushSpans(p) ==
    IF p.stopped > 0 \/ p.started = 0
    THEN p
    ELSE [p EXCEPT !.pr = @ \o p.spans, !.spans = <<>>, !.size = 0]

\* shardProducer.putJaeger / putOC: the span joins the writer's buffer, which
\* is handed on first when the span would fill it.
put(p, record) ==
    LET q == IF p.size + record.size >= p.maxSize THEN flushSpans(p) ELSE p
    IN [q EXCEPT !.spans = Append(@, record), !.size = @ + record.size]

\* shardProducer's own stop: the buffer is handed on, then the stream writer
\* is stopped.
stop(p) == [flushSpans(p) EXCEPT !.stopped = @ + 1]

\* The stream writer's Stop, producer.Stop: it takes no records any more.
prStop(p) == [p EXCEPT !.stopped = @ + 1]

\* The record a task submits: which call it is from, the size hint, and
\* whether it is submitted before any Flush call has begun.
Submission(c, p) ==
    [call |-> c, size |-> calls[c].size, schema |-> calls[c].span.schema,
     beforeFlush |-> flush.calls = 0]

\* Lines 274-277 and 311-314: the task submits the span to the writer of its
\* shard; the writer accepts it or answers an error, which is printed. The
\* deferred OnSpanDequeued runs as the task returns.
Put(c, accepted) ==
    /\ Running
    /\ calls[c].pc = "put"
    /\ producers' =
         IF accepted
         THEN [producers EXCEPT ![calls[c].sp] = put(@, Submission(c, @))]
         ELSE producers
    /\ calls' = [calls EXCEPT ![c] = finish(@, IF accepted THEN "ok" ELSE "submit")]
    /\ hooks' = Dequeued(hooks, IF accepted THEN "ok" ELSE "submit")
    /\ UNCHANGED <<ctor, err, options, client, shards, semaphore, views, flush,
                   panicked>>

\* The flush interval of a running writer passes.
WriterTick(i) ==
    /\ Running
    /\ i \in 1 .. Len(producers)
    /\ producers[i].spans # <<>>
    /\ producers[i].started > 0 /\ producers[i].stopped = 0
    /\ producers' = [producers EXCEPT ![i] = flushSpans(@)]
    /\ UNCHANGED <<ctor, err, options, client, shards, semaphore, views, hooks,
                   calls, flush, panicked>>

\* -------------------------------------------------------------------- Flush

\* Flush is called, line 201.
FlushCall ==
    /\ Running
    /\ flush.pc = "idle"
    /\ flush.calls < MaxFlushes
    /\ flush' = [flush EXCEPT !.pc = "stop", !.i = 1, !.calls = @ + 1]
    /\ UNCHANGED <<ctor, err, options, client, shards, producers, semaphore,
                   views, hooks, calls, panicked>>

\* How Flush stops a producer, line 203: sp.pr.Stop().
stopProducer(p) == prStop(p)

\* Lines 202-204, one turn of the loop.
FlushStop ==
    /\ Running
    /\ flush.pc = "stop"
    /\ producers' = [producers EXCEPT ![flush.i] = stopProducer(@)]
    /\ flush' = IF flush.i = Len(producers)
                THEN [flush EXCEPT !.pc = "close"]
                ELSE [flush EXCEPT !.i = @ + 1]
    /\ UNCHANGED <<ctor, err, options, client, shards, semaphore, views, hooks,
                   calls, panicked>>

\* Line 205: close(e.semaphore). Closing a nil channel panics, and so does
\* closing a closed one; otherwise Flush returns.
FlushClose ==
    /\ Running
    /\ flush.pc = "close"
    /\ IF semaphore.nil \/ semaphore.closed
       THEN /\ panicked' = TRUE
            /\ flush' = [flush EXCEPT !.pc = "panic"]
            /\ UNCHANGED semaphore
       ELSE /\ semaphore' = [semaphore EXCEPT !.closed = TRUE]
            /\ flush' = [flush EXCEPT !.pc = "idle", !.returned = @ + 1]
            /\ UNCHANGED panicked
    /\ UNCHANGED <<ctor, err, options, client, shards, producers, views, hooks,
                   calls>>

\* ------------------------------------------------------------ specification

Next ==
    \/ \E o \in OptionInputs : NewExporterValidate(o)
    \/ \E listing \in ShardListings \cup {<<>>} : NewExporterDiscover(listing)
    \/ \E n \in 0 .. MaxReceivers, r \in BOOLEAN : NewExporterBuild(n, r)
    \/ NewExporterStart
    \/ \E c \in Calls : ExportSpan(c)
    \/ \E c \in Calls : ExportJaegerSpan(c)
    \/ \E c \in Calls : ExportOCSpan(c)
    \/ \E c \in Calls : ExportAdmit(c)
    \/ \E c \in Calls : processJaegerSpan(c)
    \/ \E c \in Calls : processOCSpan(c)
    \/ \E c \in Calls, accepted \in BOOLEAN : Put(c, accepted)
    \/ \E i \in 1 .. Len(producers) : WriterTick(i)
    \/ FlushCall
    \/ FlushStop
    \/ FlushClose

Spec == Init /\ [][Next]_vars

\* ------------------------------------------------------------------- claims

Bounded == ctor = "Running" /\ ~semaphore.nil

SlotHolders == {c \in Calls : calls[c].slot}

\* Records a writer holds, buffered or handed to its stream writer.
Records(p) == {p.spans[k] : k \in 1 .. Len(p.spans)} \cup {p.pr[k] : k \in 1 .. Len(p.pr)}

\* C1: with a bounded gate of capacity N, neither the tokens in the semaphore
\* nor the tasks admitted through it and not released ever number more than N.
C1_AdmissionBound ==
    Bounded => /\ semaphore.len <= semaphore.cap
               /\ Cardinality(SlotHolders) <= semaphore.cap

\* C1 witness: the gate is full, one task holds a slot and another call waits
\* in acquire.
C1_GateFullAndCallWaiting ==
    /\ Bounded
    /\ semaphore.len = semaphore.cap
    /\ \E c, d \in Calls : calls[c].slot /\ calls[d].pc = "acquire"

\* C2: with a bounded gate, a task that has finished, whatever its outcome,
\* no longer holds its admission slot.
C2_FinishedTaskReleasedSlot ==
    \A c \in Calls : calls[c].pc = "done" => ~calls[c].slot

\* C3: an export call that was admitted has returned nil, whatever became of
\* its task.
C3_ExportReturnsNil ==
    \A c \in Calls : calls[c].pc \in {"process", "put", "done"} => calls[c].ret = "nil"

\* C3 witness: one task failed at routing and another at submitting, and both
\* calls returned nil.
C3_FailedTasksReturnedNil ==
    \E c, d \in Calls :
        /\ calls[c].outcome = "routing" /\ calls[c].ret = "nil"
        /\ calls[d].outcome = "submit" /\ calls[d].ret = "nil"

\* C4: no task submits to a writer whose stream writer Flush has stopped.
C4_NoSubmitAfterStop ==
    [][\A c \in Calls :
          (calls[c].pc = "put" /\ calls'[c].pc = "done")
              => producers[calls[c].sp].stopped = 0]_vars

\* C5: the first Flush on a running Exporter does not panic, and once it has
\* returned every writer is stopped and a bounded gate is closed.
C5_FlushReturnsNormally ==
    /\ flush.calls = 1 => flush.pc # "panic"
    /\ flush.returned >= 1 =>
          /\ \A i \in 1 .. Len(producers) : producers[i].stopped >= 1
          /\ semaphore.nil \/ semaphore.closed

\* C6: when Flush closes the gate, no call waits in acquire and no task is
\* under way.
C6_GateClosedAfterTasks ==
    [][(~semaphore.closed /\ semaphore'.closed)
          => \A c \in Calls : calls[c].pc \notin {"acquire", "process", "put"}]_vars

\* C7: every writer is started once when the Exporter runs, is stopped once
\* by the first Flush and is never stopped a second time.
C7_StartedAndStoppedOnce ==
    \A i \in 1 .. Len(producers) :
        /\ ctor = "Running" => producers[i].started = 1
        /\ flush.returned >= 1 => producers[i].stopped >= 1
        /\ producers[i].stopped <= 1

\* C8: once Flush has returned, no record a writer accepted before Flush
\* began is still in the writer's buffer.
C8_FlushHandsOverBuffered ==
    flush.returned >= 1 =>
        \A i \in 1 .. Len(producers) :
            \A k \in 1 .. Len(producers[i].spans) : ~producers[i].spans[k].beforeFlush

\* The options NewExporter must refuse.
BadOptions(o) ==
    \/ o.AWSRegion = ""
    \/ o.StreamName = ""
    \/ o.Encoding \notin {"", "jaeger-proto", "oc-proto"}

NoResources ==
    /\ ~client
    /\ shards = <<>>
    /\ producers = <<>>
    /\ semaphore = NilSemaphore
    /\ ~views

ValidationErrors ==
    {"missing AWS Region for Kinesis exporter",
     "missing Stream Name for Kinesis exporter",
     "invalid option for Encoding"}

\* C9: NewExporter returns an error for exactly the options without a region,
\* without a stream name or with an unknown encoding, and no resource exists
\* then or later; it accepts an empty encoding and reads it as "jaeger-proto".
C9_FailFast ==
    /\ [](ctor = "Failed" /\ err \in ValidationErrors => NoResources)
    /\ [][\A o \in OptionInputs :
             NewExporterValidate(o) =>
                 IF BadOptions(o)
                 THEN ctor' = "Failed" /\ err' \in ValidationErrors
                 ELSE /\ ctor' = "Validated"
                      /\ options'.Encoding =
                            IF o.Encoding = "" THEN "jaeger-proto" ELSE o.Encoding]_vars

\* C9 witness: NewExporter refused an unknown encoding and created nothing.
C9_RefusedEncoding ==
    ctor = "Failed" /\ err = "invalid option for Encoding" /\ NoResources

\* Whether the span a call was given encodes to at most the limit.
WithinLimit(c) ==
    /\ calls[c].pc # "idle"
    /\ ~Marshal(calls[c].orig).err
    /\ Marshal(calls[c].orig).len <= Limit

\* C10: a task whose span encodes to at most MaxAllowedSizePerSpan leaves the
\* span as it was, counts no oversized span, and submits it with its encoded
\* length as the size; the writer holds it under that size.
C10_NoOpWithinLimit ==
    /\ \A c \in Calls :
          WithinLimit(c) =>
              /\ calls[c].span = calls[c].orig
              /\ ~calls[c].xl
              /\ calls[c].pc = "put" \/ calls[c].outcome \in {"ok", "submit"}
                    => calls[c].size = Marshal(calls[c].orig).len
              /\ calls[c].outcome = "ok" =>
                    \E r \in Records(producers[calls[c].sp]) :
                        r.call = c /\ r.size = Marshal(calls[c].orig).len
    /\ (\A c \in Calls : calls[c].pc = "idle" \/ WithinLimit(c)) => hooks.xlDropped = 0

\* C10 witness: a Jaeger span and an OpenCensus span, each encoding to exactly
\* the limit, were both submitted.
C10_SubmittedAtTheLimit ==
    \E c, d \in Calls :
        /\ calls[c].orig.schema = "jaeger" /\ calls[d].orig.schema = "oc"
        /\ calls[c].outcome = "ok" /\ calls[d].outcome = "ok"
        /\ Marshal(calls[c].orig).len = Limit
        /\ Marshal(calls[d].orig).len = Limit

\* Whether the span a call was given encodes to more than the limit.
OverLimit(c) ==
    /\ calls[c].pc # "idle"
    /\ ~Marshal(calls[c].orig).err
    /\ Marshal(calls[c].orig).len > Limit

\* Whether the task of a call has got past the size guard to its submit.
PastGuard(c) == calls[c].pc = "put" \/ calls[c].outcome \in {"ok", "submit"}

\* The keys and values of a span's tags or attributes.
Entries(span) ==
    {IF "value" \in DOMAIN span.tags[k]
     THEN <<span.tags[k].key, span.tags[k].value>>
     ELSE <<span.tags[k].key>> : k \in 1 .. Len(span.tags)}

\* The dropped marker for a span whose first encoding had the given length.
DroppedEntries(size) ==
    { <<"omnition.dropped", TRUE>>,
      <<"omnition.dropped.reason", "unsupported size">>,
      <<"omnition.dropped.size", size>> }

\* C11: when a span of either schema encodes to more than the limit, the task
\* replaces its tags or attributes by exactly the three marker entries, clears
\* its logs or time events, and passes the length of the second encoding on.
C11_OversizePath ==
    \A c \in Calls :
        OverLimit(c) /\ PastGuard(c) =>
            /\ Len(calls[c].span.tags) = 3
            /\ Entries(calls[c].span) = DroppedEntries(Marshal(calls[c].orig).len)
            /\ calls[c].span.logs = <<>>
            /\ calls[c].size = Marshal(calls[c].span).len

\* C12: no task passes on, and no writer holds, a span with a size above
\* MaxAllowedSizePerSpan.
C12_SubmittedWithinLimit ==
    /\ \A c \in Calls : PastGuard(c) => calls[c].size <= Limit
    /\ \A i \in 1 .. Len(producers) :
          \A r \in Records(producers[i]) : r.size <= Limit

\* The key the task of a call routes by.
KeyOf(c) ==
    IF calls[c].orig.schema = "jaeger"
    THEN JaegerPartitionKey(calls[c].orig.traceId)
    ELSE OCPartitionKey(calls[c].orig.traceId)

\* The producers whose shard owns the key of a call.
Owners(c) ==
    {i \in 1 .. Len(producers) : belongsToShard(producers[i].shard, KeyOf(c)).ok}

\* The producers that hold a record of a call.
Holders(c) ==
    {i \in 1 .. Len(producers) : \E r \in Records(producers[i]) : r.call = c}

\* Every list of up to MaxScan membership answers.
AnswerLists ==
    UNION {[1 .. n -> [ok : BOOLEAN, err : BOOLEAN]] : n \in 0 .. MaxScan}

\* What getShardProducer has to answer for a list of membership answers: the
\* first producer that says yes, unless a test before it fails.
ScanIsSound(answers) ==
    LET r == ScanProducers(answers, 1)
        n == Len(answers)
        stops == {j \in 1 .. n : answers[j].err \/ answers[j].ok}
    IN /\ (r.sp = 0) <=> (r.err # "")
       /\ r.sp # 0 =>
             /\ r.sp \in 1 .. n
             /\ answers[r.sp].ok /\ ~answers[r.sp].err
             /\ \A j \in 1 .. r.sp - 1 : ~answers[j].ok /\ ~answers[j].err
       /\ (\A j \in 1 .. n : ~answers[j].ok) => r.sp = 0
       /\ (\E j \in stops : answers[j].err /\ \A k \in stops : j <= k) => r.sp = 0

\* C13: getShardProducer names a producer only if that producer's shard said
\* it owns the key, and answers an error and no producer when no shard owns
\* the key or a membership test fails; a task whose key has no owner ends with
\* a routing error and no writer holds its span.
C13_NoDefaultShard ==
    /\ \A answers \in AnswerLists : ScanIsSound(answers)
    /\ \A c \in Calls :
          calls[c].pc \in {"put", "done"} =>
              /\ calls[c].sp # 0 => calls[c].sp \in Owners(c)
              /\ Owners(c) = {} =>
                    /\ calls[c].outcome = "routing"
                    /\ calls[c].sp = 0
                    /\ Holders(c) = {}

\* C13 witness: a task whose key no shard owns ended with a routing error.
C13_DroppedWithoutOwner ==
    \E c \in Calls :
        calls[c].outcome = "routing" /\ Owners(c) = {} /\ Holders(c) = {}

\* Whether the ranges of a shard list partition the hash-key space.
Partitioned(shardList) ==
    \A h \in 0 .. HashSpace - 1 :
        Cardinality({i \in 1 .. Len(shardList) :
                        /\ shardList[i].startingHashKey <= h
                        /\ h <= shardList[i].endingHashKey}) = 1

\* Keys of both renderings, with a key for every position of the hash space.
AllKeys == {<<kind, t>> : kind \in {"hex", "raw"}, t \in 0 .. HashSpace - 1}

\* C14: when the shards partition the hash-key space, getShardProducer finds
\* for every key exactly the producer whose shard's range holds the key's
\* hash and never answers "no shard found"; no task ends with a routing
\* error, and tasks with the same key get the same producer.
C14_RoutingTotal ==
    ctor = "Running" /\ Partitioned(shards) =>
        /\ \A key \in AllKeys :
              LET r == getShardProducer(producers, key)
              IN /\ r.err = ""
                 /\ r.sp \in 1 .. Len(producers)
                 /\ \A i \in 1 .. Len(producers) :
                       (i = r.sp) <=>
                           /\ producers[i].shard.startingHashKey <= toHashKey(key)
                           /\ toHashKey(key) <= producers[i].shard.endingHashKey
        /\ \A c \in Calls :
              calls[c].pc \in {"put", "done"} =>
                  calls[c].outcome # "routing" /\ calls[c].sp # 0
        /\ \A c, d \in Calls :
              /\ calls[c].pc \in {"put", "done"}
              /\ calls[d].pc \in {"put", "done"}
              /\ KeyOf(c) = KeyOf(d)
              => calls[c].sp = calls[d].sp

\* C14 witness: under a partition, two tasks with the same key were routed,
\* and both to the same producer.
C14_SameKeyRoutedTwice ==
    /\ ctor = "Running" /\ Partitioned(shards)
    /\ \E c, d \in Calls :
          /\ c # d
          /\ KeyOf(c) = KeyOf(d)
          /\ calls[c].pc = "done" /\ calls[d].pc = "done"
          /\ calls[c].sp # 0 /\ calls[c].sp = calls[d].sp

\* The shard and the partition key of every producer.
Affinity == [i \in 1 .. Len(producers) |->
                <<producers[i].shard, producers[i].partitionKey>>]

\* C15: every producer's partition key is the start of its own shard's range
\* as a string, from its construction on and unchanged by every later step;
\* and a span is held only by the producer its key routes to, whose shard's
\* range holds the key's hash.
C15_ShardAffinity ==
    /\ [](/\ \A i \in 1 .. Len(producers) :
               /\ producers[i].shard = shards[i]
               /\ producers[i].partitionKey =
                      HashKeyString(shards[i].startingHashKey)
          /\ \A c \in Calls :
               /\ Holders(c) \subseteq {getShardProducer(producers, KeyOf(c)).sp}
               /\ Holders(c) \subseteq Owners(c))
    /\ [][producers # <<>> => Affinity' = Affinity]_vars

\* C15 witness: with two shards over the lower and the upper half, one span
\* is held by the first producer only and another by the second only.
C15_OneSpanInEachHalf ==
    /\ shards = FullShards
    /\ \E c, d \in Calls :
          /\ toHashKey(KeyOf(c)) < HashSpace \div 2
          /\ toHashKey(KeyOf(d)) >= HashSpace \div 2
          /\ Holders(c) = {1}
          /\ Holders(d) = {2}
          /\ producers[1].partitionKey = HashKeyString(0)
          /\ producers[2].partitionKey = HashKeyString(HashSpace \div 2)

\* The export calls made so far, those admitted (their task was spawned) and
\* those whose task has ended.
Entered == {c \in Calls : calls[c].pc # "idle"}

Admitted == {c \in Calls : calls[c].pc \in {"process", "put", "done"}}

Completed == {c \in Calls : calls[c].pc = "done"}

\* C16: every export call counts one enqueued span, before acquire, and every
\* task counts one dequeued span as it ends, whatever its outcome; so
\* dequeued never exceeds enqueued, and equals the number of admitted calls
\* once all their tasks have ended.
C16_Accounting ==
    /\ hooks.enqueued = Cardinality(Entered)
    /\ hooks.dequeued = Cardinality(Completed)
    /\ hooks.dequeued <= hooks.enqueued
    /\ Admitted = Completed => hooks.dequeued = Cardinality(Admitted)

\* C16 witness: two tasks have ended, one having submitted its span and one
\* with an error, and both are counted as enqueued and as dequeued.
C16_BothOutcomesCounted ==
    /\ \E c, d \in Calls :
          /\ calls[c].pc = "done" /\ calls[c].outcome = "ok"
          /\ calls[d].pc = "done"
          /\ calls[d].outcome \in {"routing", "encoding", "submit"}
    /\ hooks.enqueued = 2
    /\ hooks.dequeued = 2

\* The calls whose task failed at routing or at encoding.
FailedTasks == {c \in Calls : calls[c].outcome \in {"routing", "encoding"}}

\* C17: a task that fails at routing or at encoding has submitted its span to
\* no writer, has counted no oversized span and leaves the exporter running;
\* and a span exported afterwards is routed and submitted: once every task
\* has ended, a call that waits for admission is admitted, and tasks that ran
\* beside a failed one have their span with the writer they were routed to.
C17_FailureIsolated ==
    /\ \A c \in FailedTasks :
          /\ calls[c].pc = "done"
          /\ Holders(c) = {}
          /\ ~calls[c].xl
          /\ calls[c].span = calls[c].orig
    /\ hooks.xlDropped = Cardinality({c \in Calls : calls[c].xl})
    /\ \A d \in Calls :
          calls[d].outcome = "ok" => Holders(d) = {calls[d].sp}
    /\ \A d \in Calls :
          /\ FailedTasks # {}
          /\ Running
          /\ Admitted = Completed
          /\ calls[d].pc = "acquire"
          => acquireReady(semaphore)

\* The steps NewExporter takes, in their order, and the ways it fails.
ConstructionSteps ==
    {<<"Uninitialized", "Validated">>, <<"Validated", "Discovered">>,
     <<"Discovered", "Registered">>, <<"Registered", "Running">>,
     <<"Uninitialized", "Failed">>, <<"Validated", "Failed">>,
     <<"Discovered", "Failed">>}

\* C18: NewExporter validates, discovers the shards, builds the writers and
\* registers the views, and starts the writers, in this order. A writer is
\* started only once validation, discovery and registration have succeeded;
\* a failed construction has an error, no started writer and no Exporter to
\* export through; a successful one has one writer per discovered shard, each
\* started once the Exporter is returned.
C18_ConstructionOrder ==
    /\ [](/\ \A i \in 1 .. Len(producers) :
               producers[i].started > 0 =>
                   /\ ctor = "Running"
                   /\ err = ""
                   /\ Validate(options) = ""
                   /\ client
                   /\ shards \in ShardListings
                   /\ views
          /\ ctor = "Failed" =>
               /\ err # ""
               /\ \A i \in 1 .. Len(producers) : producers[i].started = 0
               /\ Entered = {}
          /\ ctor = "Running" =>
               /\ Len(producers) = Len(shards)
               /\ \A i \in 1 .. Len(producers) :
                     /\ producers[i].shard = shards[i]
                     /\ producers[i].started = 1)
    /\ [][ctor' # ctor => <<ctor, ctor'>> \in ConstructionSteps]_vars

\* C18 witness: the Exporter is returned with one started writer for each of
\* two discovered shards.
C18_ReturnedWithWritersStarted ==
    /\ ctor = "Running"
    /\ Len(shards) = 2
    /\ Len(producers) = 2
    /\ \A i \in 1 .. 2 : producers[i].started = 1 /\ producers[i].shard = shards[i]
    /\ views /\ client /\ err = ""

\* C19: no task of an OpenCensus export call crashes, whatever its span: an
\* oversized span, one without an Attributes container included, gets the
\* three marker attributes and goes on to be submitted.
C19_OCTaskNeverCrashes ==
    \A c \in Calls :
        calls[c].orig.schema = "oc" =>
            /\ calls[c].outcome # "panic"
            /\ OverLimit(c) /\ calls[c].pc \in {"put", "done"} =>
                   /\ PastGuard(c)
                   /\ Entries(calls[c].span) = DroppedEntries(Marshal(calls[c].orig).len)

\* The marker a task writes into an oversized span of either schema.
DroppedMarker(span) ==
    IF span.schema = "jaeger"
    THEN JaegerDroppedTags(Marshal(span).len)
    ELSE OCDroppedAttributes(Marshal(span).len)

\* C20: the exporter writes to the caller's span on the oversize path only. A
\* span that is not oversized is as the caller passed it, at every point of
\* the call and its task; an oversized span that has reached the size guard
\* has its tags or attributes replaced by the marker and its logs cleared,
\* nothing else of it is written, and the writing is done by the task, after
\* the export call has returned.
C20_WrittenOnlyWhenOversized ==
    \A c \in Calls :
        /\ calls[c].pc # "idle" /\ ~OverLimit(c) => calls[c].span = calls[c].orig
        /\ calls[c].span # calls[c].orig => calls[c].ret = "nil"
        /\ /\ OverLimit(c)
           /\ calls[c].pc \in {"put", "done"}
           /\ calls[c].outcome # "routing"
           => /\ calls[c].span.tags = DroppedMarker(calls[c].orig)
              /\ calls[c].span.logs = <<>>
              /\ calls[c].span.other = calls[c].orig.other
              /\ calls[c].span.traceId = calls[c].orig.traceId

====
